---- MODULE Spec2Model ----
(***************************************************************************)
(* Model of hol2ics.py: conversion of an Outlook holiday file (.hol) into  *)
(* an iCalendar file (.ics).                                               *)
(*                                                                         *)
(* Text is modelled as a sequence of tokens.  A token is a one-character   *)
(* string, except for the fixed keywords of the iCalendar template, the    *)
(* random UID and the wall-clock DTSTAMP, which are one token each (none   *)
(* of them contains a comma, a bracket, a slash, a digit that is parsed,   *)
(* whitespace or a line terminator).                                       *)
(***************************************************************************)
EXTENDS Integers, Sequences, FiniteSets, TLC

\* ------------------------------------------------------------------------
\* Characters and elementary string functions (Python str semantics)
\* ------------------------------------------------------------------------
CR == "\r"
LF == "\n"
TAB == "\t"
SP == " "

Digits == {"0", "1", "2", "3", "4", "5", "6", "7", "8", "9"}

NonZeroDigits == Digits \ {"0"}

\* str.isspace() for the characters used here; also the regex class \s
Whitespace == {SP, TAB, LF, CR}

DigitChars == <<"0", "1", "2", "3", "4", "5", "6", "7", "8", "9">>

DigitVal(c) == CHOOSE n \in 0..9 : DigitChars[n + 1] = c

\* s[i] or the empty string past either end (no character matches it)
At(s, i) == IF i \in 1..Len(s) THEN s[i] ELSE ""

Max(S) == CHOOSE x \in S : \A y \in S : y <= x

Min(S) == CHOOSE x \in S : \A y \in S : x <= y

\* str.strip(): drop leading and trailing whitespace
Strip(s) ==
  LET keep == {i \in 1..Len(s) : s[i] \notin Whitespace}
  IN  IF keep = {} THEN <<>> ELSE SubSeq(s, Min(keep), Max(keep))

\* str.split(sep): every occurrence of sep separates two parts
RECURSIVE Split(_, _)
Split(s, sep) ==
  LET hits == {i \in 1..Len(s) : s[i] = sep}
  IN  IF hits = {} THEN <<s>>
      ELSE <<SubSeq(s, 1, Min(hits) - 1)>> \o
           Split(SubSeq(s, Min(hits) + 1, Len(s)), sep)

\* sep.join(parts)
RECURSIVE Join(_, _)
Join(parts, sep) ==
  IF parts = <<>> THEN <<>>
  ELSE IF Len(parts) = 1 THEN parts[1]
  ELSE parts[1] \o sep \o Join(Tail(parts), sep)

\* ------------------------------------------------------------------------
\* datetime.datetime.strptime(s, "%Y/%m/%d") and strftime("%Y%m%d")
\* ------------------------------------------------------------------------
NoMatch == <<0, 0>>

IsLeap(y) == y % 4 = 0 /\ (y % 100 # 0 \/ y % 400 = 0)

DaysInMonth(y, m) ==
  IF m = 2 THEN (IF IsLeap(y) THEN 29 ELSE 28)
  ELSE IF m \in {4, 6, 9, 11} THEN 30 ELSE 31

\* %Y is the regex \d\d\d\d: <<value, next position>> or NoMatch
YearMatch(s, p) ==
  IF \A i \in p..(p + 3) : At(s, i) \in Digits
  THEN <<1000 * DigitVal(s[p]) + 100 * DigitVal(s[p + 1])
         + 10 * DigitVal(s[p + 2]) + DigitVal(s[p + 3]), p + 4>>
  ELSE NoMatch

\* %m is the regex 1[0-2]|0[1-9]|[1-9], followed in the format by "/":
\* the alternatives are tried in order and one is kept only if the "/"
\* follows it.  <<value, position after the "/">> or NoMatch
MonthMatch(s, p) ==
  IF At(s, p) = "1" /\ At(s, p + 1) \in {"0", "1", "2"} /\ At(s, p + 2) = "/"
  THEN <<10 + DigitVal(s[p + 1]), p + 3>>
  ELSE IF At(s, p) = "0" /\ At(s, p + 1) \in NonZeroDigits /\ At(s, p + 2) = "/"
  THEN <<DigitVal(s[p + 1]), p + 3>>
  ELSE IF At(s, p) \in NonZeroDigits /\ At(s, p + 1) = "/"
  THEN <<DigitVal(s[p]), p + 2>>
  ELSE NoMatch

\* %d is the regex 3[01]|[12]\d|0[1-9]|[1-9]| [1-9], last in the format:
\* the first alternative that matches is the one kept
DayMatch(s, p) ==
  IF At(s, p) = "3" /\ At(s, p + 1) \in {"0", "1"}
  THEN <<30 + DigitVal(s[p + 1]), p + 2>>
  ELSE IF At(s, p) \in {"1", "2"} /\ At(s, p + 1) \in Digits
  THEN <<10 * DigitVal(s[p]) + DigitVal(s[p + 1]), p + 2>>
  ELSE IF At(s, p) = "0" /\ At(s, p + 1) \in NonZeroDigits
  THEN <<DigitVal(s[p + 1]), p + 2>>
  ELSE IF At(s, p) \in NonZeroDigits
  THEN <<DigitVal(s[p]), p + 1>>
  ELSE IF At(s, p) = SP /\ At(s, p + 1) \in NonZeroDigits
  THEN <<DigitVal(s[p + 1]), p + 2>>
  ELSE NoMatch

NoDate == <<0, 0, 0>>

\* strptime: the date <<year, month, day>>, or NoDate where it raises
\* ValueError (no match, unconverted data remains, year 0, day out of range)
strptime(s) ==
  LET y == YearMatch(s, 1)
      m == IF y = NoMatch \/ At(s, 5) # "/" THEN NoMatch ELSE MonthMatch(s, 6)
      d == IF m = NoMatch THEN NoMatch ELSE DayMatch(s, m[2])
  IN  IF d = NoMatch THEN NoDate
      ELSE IF d[2] # Len(s) + 1 THEN NoDate
      ELSE IF y[1] < 1 THEN NoDate
      ELSE IF d[1] > DaysInMonth(y[1], m[1]) THEN NoDate
      ELSE <<y[1], m[1], d[1]>>

\* decimal digits of n without leading zeros
RECURSIVE Decimal(_)
Decimal(n) ==
  IF n < 10 THEN <<DigitChars[n + 1]>>
  ELSE Decimal(n \div 10) \o <<DigitChars[(n % 10) + 1]>>

\* decimal digits of n, zero-padded on the left to width w
RECURSIVE ZeroPad(_, _)
ZeroPad(n, w) ==
  IF w <= 0 THEN <<>>
  ELSE ZeroPad(n \div 10, w - 1) \o <<DigitChars[(n % 10) + 1]>>

\* strftime("%Y%m%d"): %m and %d are two digits; %Y of a year below 1000
\* is zero-padded to four digits or not, depending on the C library the
\* interpreter is built on (pad)
strftime(date, pad) ==
  (IF pad \/ date[1] >= 1000 THEN ZeroPad(date[1], 4) ELSE Decimal(date[1]))
  \o ZeroPad(date[2], 2) \o ZeroPad(date[3], 2)

\* ------------------------------------------------------------------------
\* line_to_event_tuple
\* ------------------------------------------------------------------------
\* line_to_event_tuple with the title stripped like the date
line_to_event_tuple_stripped(line) ==
  LET parts == Split(line, ",")
  IN  IF Len(parts) # 2
      THEN [err |-> "unpack", day_title |-> <<>>, date_str |-> <<>>,
            begin_datetime |-> NoDate]
      ELSE LET begin_datetime == strptime(Strip(parts[2]))
           IN  [err |-> IF begin_datetime = NoDate THEN "strptime" ELSE "",
                day_title |-> Strip(parts[1]), date_str |-> parts[2],
                begin_datetime |-> begin_datetime]

\* The result of line_to_event_tuple(line).  err names the statement that
\* raised ValueError: "unpack" (the two-target assignment of line 22) or
\* "strptime" (lines 24-26); "" when the tuple is returned.
line_to_event_tuple(line) ==
  LET parts == Split(line, ",")
  IN  IF Len(parts) # 2
      THEN [err |-> "unpack", day_title |-> <<>>, date_str |-> <<>>,
            begin_datetime |-> NoDate]
      ELSE LET begin_datetime == strptime(Strip(parts[2]))
           IN  [err |-> IF begin_datetime = NoDate THEN "strptime" ELSE "",
                day_title |-> parts[1], date_str |-> parts[2],
                begin_datetime |-> begin_datetime]

\* ------------------------------------------------------------------------
\* write_ics_file: the text it builds
\* ------------------------------------------------------------------------
\* the three lines before the events
HeadLines(title) ==
  << <<"BEGIN:VCALENDAR">>, <<"VERSION:2.0">>,
     <<"PRODID:-//">> \o title \o <<"//EN">> >>

\* EventLines with DTSTART taken from the creation time
EventLinesStartNow(name, start_date, uid, creation_time, pad) ==
  << <<"BEGIN:VEVENT">>,
     <<"UID:", uid>>,
     <<"DTSTAMP:", creation_time>>,
     <<"DTSTART;VALUE=DATE:", creation_time>>,
     <<"SUMMARY:">> \o name,
     <<"END:VEVENT">> >>

\* the six lines of one event
EventLines(name, start_date, uid, creation_time, pad) ==
  << <<"BEGIN:VEVENT">>,
     <<"UID:", uid>>,
     <<"DTSTAMP:", creation_time>>,
     <<"DTSTART;VALUE=DATE:">> \o strftime(start_date, pad),
     <<"SUMMARY:">> \o name,
     <<"END:VEVENT">> >>

\* ics_str = "\r\n".join(lines)
IcsStr(lines) == Join(lines, <<CR, LF>>)

\* ------------------------------------------------------------------------
\* read_hol_file: the header pattern \[(?P<title>.+)\]\s*(?P<count>[0-9]+)
\* applied with re.match (anchored at the start of the line only)
\* ------------------------------------------------------------------------
\* first position after k that holds no whitespace (\s* is greedy and the
\* digit that must follow is not whitespace)
SkipSpace(s, k) ==
  Min({q \in (k + 1)..(Len(s) + 1) :
         At(s, q) \notin Whitespace
         /\ \A i \in (k + 1)..(q - 1) : s[i] \in Whitespace})

\* last position of the run of digits that starts at q ([0-9]+ is greedy)
DigitRunEnd(s, q) ==
  Max({e \in q..Len(s) : \A i \in q..e : s[i] \in Digits})

\* positions k of a "]" that can close the title group: the line starts
\* with "[", the group is not empty, "." matches anything but a newline,
\* and optional whitespace then a digit follow the "]"
ClosingBrackets(header) ==
  {k \in 3..Len(header) :
     /\ header[1] = "["
     /\ header[k] = "]"
     /\ \A i \in 2..(k - 1) : header[i] # LF
     /\ At(header, SkipSpace(header, k)) \in Digits}

\* HeaderMatch with a non-greedy title group (.+?)
HeaderMatchNonGreedy(header) ==
  LET K == ClosingBrackets(header)
  IN  IF K = {}
      THEN [matched |-> FALSE, title |-> <<>>, count |-> <<>>,
            count_at |-> 0]
      ELSE LET k == Min(K)
               q == SkipSpace(header, k)
           IN  [matched |-> TRUE, title |-> SubSeq(header, 2, k - 1),
                count |-> SubSeq(header, q, DigitRunEnd(header, q)),
                count_at |-> q]

\* re.match(header_pattern, header): ".+" is greedy, so the title group
\* ends at the last "]" from which the rest of the pattern matches
HeaderMatch(header) ==
  LET K == ClosingBrackets(header)
  IN  IF K = {}
      THEN [matched |-> FALSE, title |-> <<>>, count |-> <<>>,
            count_at |-> 0]
      ELSE LET k == Max(K)
               q == SkipSpace(header, k)
           IN  [matched |-> TRUE, title |-> SubSeq(header, 2, k - 1),
                count |-> SubSeq(header, q, DigitRunEnd(header, q)),
                count_at |-> q]

\* ------------------------------------------------------------------------
\* Inputs
\* ------------------------------------------------------------------------
\* most record lines of a source file
MaxRecords == 2

\* most record lines of a source file that is converted twice
MaxRerunRecords == 1

\* a pathlib.Path, as far as the program looks at it: stem and suffix
Path(stem, suffix) == [stem |-> stem, suffix |-> suffix]

\* args.destination_path when --dest is not given
None == Path("", "")

\* Path.with_suffix
with_suffix(path, suffix) == Path(path.stem, suffix)

SourcePaths == {Path("cal", ".hol"), Path("cal", ".txt")}

DestArgs == {None, Path("out", ".ics"), Path("out", ".txt")}

\* uuid.uuid4() and datetime.now(): values the program does not control
Uids == {"uuid-1", "uuid-2"}

Stamps == {"20240101T000000", "20240101T000001"}

\* first lines: "[a] 1", "[a b]12", "a 1", "[a]", "[a] 1x", "[a]1]x"
HeaderSamples ==
  { <<"[", "a", "]", SP, "1", LF>>,
    <<"[", "a", SP, "b", "]", "1", "2", LF>>,
    <<"a", SP, "1", LF>>,
    <<"[", "a", "]", LF>>,
    <<"[", "a", "]", SP, "1", "x", LF>>,
    <<"[", "a", "]", "1", "]", "x", LF>> }

\* record lines: "a,2024/01/01", " b , 2024/12/31 ", "c,0999/1/1",
\* "n", "d,2024/13/40", "e,f,2024/01/01", "g,2023/02/29"
RecordSamples ==
  { <<"a", ",", "2", "0", "2", "4", "/", "0", "1", "/", "0", "1", LF>>,
    <<SP, "b", SP, ",", SP, "2", "0", "2", "4", "/", "1", "2", "/", "3", "1",
      SP, LF>>,
    <<"c", ",", "0", "9", "9", "9", "/", "1", "/", "1", LF>>,
    <<"n", LF>>,
    <<"d", ",", "2", "0", "2", "4", "/", "1", "3", "/", "4", "0", LF>>,
    <<"e", ",", "f", ",", "2", "0", "2", "4", "/", "0", "1", "/", "0", "1",
      LF>>,
    <<"g", ",", "2", "0", "2", "3", "/", "0", "2", "/", "2", "9">> }

SeqsUpTo(S, n) == UNION {[1..k -> S] : k \in 0..n}

\* every line of a file ends with a newline, except perhaps the last one
\* (universal newlines: the only line terminator read is "\n")
IsFile(f) == \A i \in 1..(Len(f) - 1) : f[i][Len(f[i])] = LF

\* the lines of a source file: empty, or a first line and record lines
SourceFiles ==
  {<<>>} \cup {f \in {<<h>> \o r : h \in HeaderSamples,
                                    r \in SeqsUpTo(RecordSamples, MaxRecords)} :
                IsFile(f)}

\* source files converted twice
RerunHeaders ==
  { <<"[", "a", "]", SP, "1", LF>>,
    <<"[", "a", "]", "1", "]", "2", "x", LF>>,
    <<"a", SP, "1", LF>> }

RerunRecords ==
  { <<"a", ",", "2", "0", "2", "4", "/", "0", "1", "/", "0", "1", LF>>,
    <<SP, "b", ",", "0", "9", "9", "9", "/", "1", "/", "1", LF>>,
    <<"n", LF>> }

RerunFiles ==
  {<<h>> \o r : h \in RerunHeaders,
                r \in SeqsUpTo(RerunRecords, MaxRerunRecords)}

\* digits a header count is rewritten to
CountDigits == { <<"0">>, <<"3">>, <<"4", "0">> }

\* ------------------------------------------------------------------------
\* State
\* ------------------------------------------------------------------------
VARIABLES
  pad,               \* build: strftime("%Y") zero-pads years below 1000
  source_path,       \* args.source_path
  dest_arg,          \* args.destination_path
  source,            \* the lines of the source file
  pc,                \* where the run is
  err,               \* the statement that raised ValueError, "" if none
  destination_path,  \* destination_path of __main__
  title,             \* title returned by read_hol_file
  count,             \* count group of the header
  pending,           \* lines the map object has not yet been asked for
  lines,             \* lines of write_ics_file
  ics_str,           \* ics_str of write_ics_file
  out_file,          \* what the run has done to the file system
  first,             \* outcome of the first conversion, once it is over
  arg,               \* argument of a function applied on its own
  ret                \* its result

vars == <<pad, source_path, dest_arg, source, pc, err, destination_path,
          title, count, pending, lines, ics_str, out_file, first, arg, ret>>

\* no file opened for writing
Untouched == [path |-> None, state |-> "untouched", content |-> <<>>]

NoRun == [variant |-> "", pc |-> "", err |-> "", title |-> <<>>,
          source |-> <<>>, content |-> <<>>]

NoRet == [err |-> "", day_title |-> <<>>, date_str |-> <<>>,
          begin_datetime |-> NoDate, event_lines |-> <<>>]

\* the locals of a run that has not yet assigned any
Fresh ==
  /\ err = ""
  /\ destination_path = None
  /\ title = <<>>
  /\ count = <<>>
  /\ pending = <<>>
  /\ lines = <<>>
  /\ ics_str = <<>>
  /\ out_file = Untouched

Init ==
  /\ pad \in BOOLEAN
  /\ source_path \in SourcePaths
  /\ dest_arg \in DestArgs
  /\ source \in SourceFiles
  /\ pc = "main"
  /\ Fresh
  /\ first = NoRun
  /\ arg = <<>>
  /\ ret = NoRet

\* ------------------------------------------------------------------------
\* One conversion: __main__, read_hol_file, write_ics_file
\* ------------------------------------------------------------------------
Raise(site) ==
  /\ pc' = "failed"
  /\ err' = site

\* lines 118-128: the extension checks and the destination path
Main ==
  /\ pc = "main"
  /\ IF source_path.suffix # ".hol"
     THEN Raise("source_ext") /\ UNCHANGED destination_path
     ELSE IF dest_arg # None
     THEN IF source_path.suffix # ".ics"
          THEN Raise("dest_ext") /\ UNCHANGED destination_path
          ELSE /\ destination_path' = dest_arg
               /\ pc' = "read"
               /\ UNCHANGED err
     ELSE /\ destination_path' = with_suffix(source_path, ".ics")
          /\ pc' = "read"
          /\ UNCHANGED err
  /\ UNCHANGED <<pad, source_path, dest_arg, source, title, count, pending,
                 lines, ics_str, out_file, first, arg, ret>>

\* handler.readline(): the first line, "" at the end of the file
ReadLine(file) == IF file = <<>> THEN <<>> ELSE Head(file)

\* the value of a run of decimal digits
RECURSIVE IntOf(_)
IntOf(digits) ==
  IF digits = <<>> THEN 0
  ELSE 10 * IntOf(SubSeq(digits, 1, Len(digits) - 1))
       + DigitVal(digits[Len(digits)])

\* ReadLines that stops after as many lines as the header count announces
ReadLinesCounted(file) ==
  IF file = <<>> THEN <<>>
  ELSE LET n == IntOf(HeaderMatch(Head(file)).count)
       IN  SubSeq(Tail(file), 1, IF n < Len(file) - 1 THEN n ELSE Len(file) - 1)

\* ReadLines with the line after the header skipped as well
ReadLinesDropFirst(file) ==
  IF Len(file) < 2 THEN <<>> ELSE Tail(Tail(file))

\* handler.readlines(): the lines after the one read
ReadLines(file) == IF file = <<>> THEN <<>> ELSE Tail(file)

\* lines 69-97: read_hol_file.  The map object it returns has parsed
\* nothing yet; readlines() has read every remaining line.
ReadHolFile ==
  /\ pc = "read"
  /\ LET matches == HeaderMatch(ReadLine(source))
     IN  IF matches.matched
         THEN /\ title' = matches.title
              /\ count' = matches.count
              /\ pending' = ReadLines(source)
              /\ pc' = "write"
              /\ UNCHANGED err
         ELSE /\ Raise("header")
              /\ UNCHANGED <<title, count, pending>>
  /\ UNCHANGED <<pad, source_path, dest_arg, source, destination_path,
                 lines, ics_str, out_file, first, arg, ret>>

\* WriteBegin with the destination opened before the loop
WriteBeginOpening ==
  /\ pc = "write"
  /\ lines' = HeadLines(title)
  /\ out_file' = [path |-> destination_path, state |-> "open",
                  content |-> <<>>]
  /\ pc' = "loop"
  /\ UNCHANGED <<pad, source_path, dest_arg, source, err, destination_path,
                 title, count, pending, ics_str, first, arg, ret>>

\* lines 38-42: write_ics_file starts its list of lines
WriteBegin ==
  /\ pc = "write"
  /\ lines' = HeadLines(title)
  /\ pc' = "loop"
  /\ UNCHANGED <<pad, source_path, dest_arg, source, err, destination_path,
                 title, count, pending, ics_str, out_file, first, arg, ret>>

\* ForEvent with each event written to the destination as it is built
ForEventStreaming ==
  /\ pc = "loop"
  /\ pending # <<>>
  /\ LET event == line_to_event_tuple(Head(pending))
     IN  IF event.err # ""
         THEN /\ Raise(event.err)
              /\ UNCHANGED <<lines, out_file>>
         ELSE /\ \E uid \in Uids, creation_time \in Stamps :
                   lines' = lines \o EventLines(event.day_title,
                                                event.begin_datetime,
                                                uid, creation_time, pad)
              /\ out_file' = [path |-> destination_path, state |-> "open",
                              content |-> <<>>]
              /\ UNCHANGED <<pc, err>>
  /\ pending' = Tail(pending)
  /\ UNCHANGED <<pad, source_path, dest_arg, source, destination_path,
                 title, count, ics_str, first, arg, ret>>

\* lines 44-57: one iteration of the loop.  The map object parses the next
\* line (line_to_event_tuple); the body adds the event's lines.
ForEvent ==
  /\ pc = "loop"
  /\ pending # <<>>
  /\ LET event == line_to_event_tuple(Head(pending))
     IN  IF event.err # ""
         THEN /\ Raise(event.err)
              /\ UNCHANGED lines
         ELSE /\ \E uid \in Uids, creation_time \in Stamps :
                   lines' = lines \o EventLines(event.day_title,
                                                event.begin_datetime,
                                                uid, creation_time, pad)
              /\ UNCHANGED <<pc, err>>
  /\ pending' = Tail(pending)
  /\ UNCHANGED <<pad, source_path, dest_arg, source, destination_path,
                 title, count, ics_str, out_file, first, arg, ret>>

\* lines 59-62: the iterator is exhausted; the last line and the join
EndLoop ==
  /\ pc = "loop"
  /\ pending = <<>>
  /\ lines' = Append(lines, <<"END:VCALENDAR">>)
  /\ ics_str' = IcsStr(lines')
  /\ pc' = "open"
  /\ UNCHANGED <<pad, source_path, dest_arg, source, err, destination_path,
                 title, count, pending, out_file, first, arg, ret>>

\* line 65: open("w") creates or truncates the destination
OpenDest ==
  /\ pc = "open"
  /\ out_file' = [path |-> destination_path, state |-> "open",
                  content |-> <<>>]
  /\ pc' = "writing"
  /\ UNCHANGED <<pad, source_path, dest_arg, source, err, destination_path,
                 title, count, pending, lines, ics_str, first, arg, ret>>

\* line 66 and the end of the with block
WriteDest ==
  /\ pc = "writing"
  /\ out_file' = [out_file EXCEPT !.state = "closed", !.content = ics_str]
  /\ pc' = "done"
  /\ UNCHANGED <<pad, source_path, dest_arg, source, err, destination_path,
                 title, count, pending, lines, ics_str, first, arg, ret>>

Convert ==
  \/ Main
  \/ ReadHolFile
  \/ WriteBegin
  \/ ForEvent
  \/ EndLoop
  \/ OpenDest
  \/ WriteDest

Next == Convert

Spec == Init /\ [][Next]_vars

\* ------------------------------------------------------------------------
\* The program run a second time
\* ------------------------------------------------------------------------
\* the header with the digits of its count group replaced
WithCount(header, digits) ==
  LET m == HeaderMatch(header)
  IN  SubSeq(header, 1, m.count_at - 1) \o digits
      \o SubSeq(header, m.count_at + Len(m.count), Len(header))

\* a new process: no local is assigned, nothing is opened
Restart ==
  /\ pc' = "main"
  /\ err' = ""
  /\ destination_path' = None
  /\ title' = <<>>
  /\ count' = <<>>
  /\ pending' = <<>>
  /\ lines' = <<>>
  /\ ics_str' = <<>>
  /\ out_file' = Untouched

Outcome(variant) ==
  [variant |-> variant, pc |-> pc, err |-> err, title |-> title,
   source |-> source, content |-> out_file.content]

\* the program is started again on the same source file, with the same
\* arguments, the destination of the first run set aside
RerunSame ==
  /\ pc \in {"done", "failed"}
  /\ first = NoRun
  /\ first' = Outcome("same")
  /\ Restart
  /\ UNCHANGED <<pad, source_path, dest_arg, source, arg, ret>>

\* the program is started again on a source file that differs from the
\* first one in the digits of the header count only
RerunCount ==
  /\ pc \in {"done", "failed"}
  /\ first = NoRun
  /\ source # <<>>
  /\ HeaderMatch(source[1]).matched
  /\ \E digits \in CountDigits :
       /\ digits # HeaderMatch(source[1]).count
       /\ source' = [source EXCEPT ![1] = WithCount(@, digits)]
  /\ first' = Outcome("count")
  /\ Restart
  /\ UNCHANGED <<pad, source_path, dest_arg, arg, ret>>

InitTwice ==
  /\ pad \in BOOLEAN
  /\ source_path \in SourcePaths
  /\ dest_arg = None
  /\ source \in RerunFiles
  /\ pc = "main"
  /\ Fresh
  /\ first = NoRun
  /\ arg = <<>>
  /\ ret = NoRet

NextTwice ==
  \/ Convert
  \/ RerunSame
  \/ RerunCount

SpecTwice == InitTwice /\ [][NextTwice]_vars

\* ------------------------------------------------------------------------
\* line_to_event_tuple and the event block, applied to one line
\* ------------------------------------------------------------------------
Cat3(A, B, C) == {a \o b \o c : a \in A, b \in B, c \in C}

\* "", "a", " a "
TitleParts == { <<>>, <<"a">>, <<SP, "a", SP>> }

\* ",", no comma, ",b,"
CommaParts == { <<",">>, <<>>, <<",", "b", ",">> }

LeadParts == { <<>>, <<SP>> }

YearParts ==
  { <<"2", "0", "2", "4">>, <<"2", "0", "2", "3">>, <<"1", "9", "0", "0">>,
    <<"2", "0", "0", "0">>, <<"0", "9", "9", "9">>, <<"0", "0", "0", "0">>,
    <<"2", "4">>, <<"2", "0", "x", "4">> }

\* "/1", "/01", "/02", "/2", "/12", "/13", "/00", "/001", "", "/a"
MonthParts ==
  { <<"/", "1">>, <<"/", "0", "1">>, <<"/", "0", "2">>, <<"/", "2">>,
    <<"/", "1", "2">>, <<"/", "1", "3">>, <<"/", "0", "0">>,
    <<"/", "0", "0", "1">>, <<>>, <<"/", "a">> }

\* "/1", "/01", "/29", "/30", "/31", "/32", "/ 1", "/00", "/40", "",
\* "/1/", "/011"
DayParts ==
  { <<"/", "1">>, <<"/", "0", "1">>, <<"/", "2", "9">>, <<"/", "3", "0">>,
    <<"/", "3", "1">>, <<"/", "3", "2">>, <<"/", SP, "1">>,
    <<"/", "0", "0">>, <<"/", "4", "0">>, <<>>, <<"/", "1", "/">>,
    <<"/", "0", "1", "1">> }

EndParts == { <<LF>>, <<SP>> }

RecordInputs ==
  Cat3(Cat3(TitleParts, CommaParts, LeadParts),
       Cat3(YearParts, MonthParts, DayParts), EndParts)

InitRecord ==
  /\ pad \in BOOLEAN
  /\ source_path = Path("cal", ".hol")
  /\ dest_arg = None
  /\ source = <<>>
  /\ pc = "call"
  /\ Fresh
  /\ first = NoRun
  /\ arg \in RecordInputs
  /\ ret = NoRet

\* line_to_event_tuple(arg) and, for the tuple it returns, the body of the
\* loop of write_ics_file
ApplyLineToEventTuple ==
  /\ pc = "call"
  /\ LET event == line_to_event_tuple(arg)
     IN  \E uid \in Uids, creation_time \in Stamps :
           ret' = [NoRet EXCEPT
                     !.err = event.err,
                     !.day_title = event.day_title,
                     !.date_str = event.date_str,
                     !.begin_datetime = event.begin_datetime,
                     !.event_lines =
                        IF event.err # "" THEN <<>>
                        ELSE EventLines(event.day_title, event.begin_datetime,
                                        uid, creation_time, pad)]
  /\ pc' = "returned"
  /\ UNCHANGED <<pad, source_path, dest_arg, source, err, destination_path,
                 title, count, pending, lines, ics_str, out_file, first, arg>>

NextRecord == ApplyLineToEventTuple

SpecRecord == InitRecord /\ [][NextRecord]_vars

\* ------------------------------------------------------------------------
\* read_hol_file on one first line
\* ------------------------------------------------------------------------
\* what precedes the title: "[", "", "x[", " ["
OpenParts == { <<"[">>, <<>>, <<"x", "[">>, <<SP, "[">> }

\* "", "a", "a b", "a]", "[", "a]1", "a] 2"
NameParts ==
  { <<>>, <<"a">>, <<"a", SP, "b">>, <<"a", "]">>, <<"[">>,
    <<"a", "]", "1">>, <<"a", "]", SP, "2">> }

CloseParts == { <<"]">>, <<>> }

GapParts == { <<>>, <<SP>>, <<TAB, SP>>, <<"x">> }

NumberParts == { <<>>, <<"1">>, <<"1", "2">> }

\* what follows the count: "", "x", " ", "]", "]7"
TrailParts == { <<>>, <<"x">>, <<SP>>, <<"]">>, <<"]", "7">> }

\* the line is terminated, or it is the last of the file and is not
LineEnds == { <<LF>>, <<>> }

HeaderInputs ==
  Cat3(Cat3(OpenParts, NameParts, CloseParts),
       Cat3(GapParts, NumberParts, TrailParts), LineEnds) \ {<<>>}

\* the empty file, a file of one line, a first line and one record line
HeaderFiles ==
  {<<>>} \cup {<<h>> : h \in HeaderInputs}
  \cup {<<h, r>> : h \in {x \in HeaderInputs : x[Len(x)] = LF},
                    r \in {<<"a", ",", "2", "0", "2", "4", "/", "1", "/",
                             "1", LF>>}}

InitHeader ==
  /\ pad \in BOOLEAN
  /\ source_path = Path("cal", ".hol")
  /\ dest_arg = None
  /\ source \in HeaderFiles
  /\ pc = "main"
  /\ Fresh
  /\ first = NoRun
  /\ arg = <<>>
  /\ ret = NoRet

NextHeader ==
  \/ Main
  \/ ReadHolFile

SpecHeader == InitHeader /\ [][NextHeader]_vars

\* ------------------------------------------------------------------------
\* Notions the claims are stated in
\* ------------------------------------------------------------------------
\* positions where a CRLF starts
CRLFs(text) == {i \in 1..(Len(text) - 1) : text[i] = CR /\ text[i + 1] = LF}

\* the content lines of a document: the text between CRLFs
RECURSIVE DocLines(_)
DocLines(text) ==
  LET ends == CRLFs(text)
  IN  IF ends = {} THEN <<text>>
      ELSE LET first_end == Min(ends)
           IN  <<SubSeq(text, 1, first_end - 1)>>
               \o DocLines(SubSeq(text, first_end + 2, Len(text)))

Commas(line) == {i \in 1..Len(line) : line[i] = ","}

BeforeFirstComma(line) == SubSeq(line, 1, Min(Commas(line)) - 1)

AfterFirstComma(line) == SubSeq(line, Min(Commas(line)) + 1, Len(line))

\* the record lines of the source file
Records == IF source = <<>> THEN <<>> ELSE Tail(source)

\* the six content lines of the i-th VEVENT block of a document
Block(doc, i) == SubSeq(doc, 6 * i - 2, 6 * i + 3)

Failed == pc = "failed"

RecordErrors == {"unpack", "strptime"}

ExtensionErrors == {"source_ext", "dest_ext"}

\* ------------------------------------------------------------------------
\* C1: the written document holds exactly one VEVENT block per record line
\* of the source, between the VCALENDAR wrapper lines, and the i-th block's
\* DTSTART and SUMMARY are those of the i-th record line: nothing dropped,
\* duplicated or reordered (no record line included).
\* ------------------------------------------------------------------------
C1_OneBlockPerRecordInOrder ==
  pc = "done" =>
    LET doc == DocLines(out_file.content)
        n == Len(Records)
    IN  /\ Len(doc) = 4 + 6 * n
        /\ doc[1] = <<"BEGIN:VCALENDAR">>
        /\ doc[Len(doc)] = <<"END:VCALENDAR">>
        /\ Cardinality({j \in 1..Len(doc) : doc[j] = <<"BEGIN:VEVENT">>}) = n
        /\ \A i \in 1..n :
             LET b == Block(doc, i)
                 line == Records[i]
             IN  /\ b[1] = <<"BEGIN:VEVENT">>
                 /\ b[4] = <<"DTSTART;VALUE=DATE:">>
                           \o strftime(strptime(Strip(AfterFirstComma(line))),
                                       pad)
                 /\ b[5] = <<"SUMMARY:">> \o BeforeFirstComma(line)
                 /\ b[6] = <<"END:VEVENT">>

\* a document of two different records has been written
C1_Witness ==
  /\ pc = "done"
  /\ Len(Records) = 2
  /\ Records[1] # Records[2]

\* ------------------------------------------------------------------------
\* C2: the destination holds the full document or nothing of it; a run
\* that has failed (header, record without comma, date, extension) has not
\* opened, created or truncated the destination, whichever line is bad.
\* ------------------------------------------------------------------------
C2_AllOrNothing ==
  /\ Failed => out_file = Untouched
  /\ pc = "done" => /\ out_file.state = "closed"
                    /\ out_file.content = IcsStr(lines)
                    /\ Len(lines) = 4 + 6 * Len(Records)
  /\ out_file.content # <<>> => pc = "done"

\* the last of two record lines is the bad one, after a good first one
C2_Witness ==
  /\ Failed
  /\ err \in RecordErrors
  /\ Len(Records) = 2
  /\ pending = <<>>
  /\ Len(lines) = 9

\* ------------------------------------------------------------------------
\* C3: with a .hol source, a --dest ending in .ics passes the extension
\* checks and the document is written to that path; a --dest not ending in
\* .ics is rejected; without --dest the destination is the source path
\* with its extension replaced by .ics.
\* ------------------------------------------------------------------------
C3_DestExtension ==
  pc # "main" =>
    /\ (source_path.suffix = ".hol" /\ dest_arg # None
        /\ dest_arg.suffix = ".ics")
         => /\ err \notin ExtensionErrors
            /\ pc = "done" => out_file.path = dest_arg
    /\ (dest_arg # None /\ dest_arg.suffix # ".ics")
         => Failed /\ err \in ExtensionErrors
    /\ (dest_arg = None /\ pc = "done")
         => out_file.path = Path(source_path.stem, ".ics")

\* ------------------------------------------------------------------------
\* C9: the string write_ics_file writes terminates each of its 4 + 6n
\* lines, the final END:VCALENDAR included, with CRLF.
\* ------------------------------------------------------------------------
C9_EveryLineTerminated ==
  pc = "done" =>
    LET text == out_file.content
    IN  /\ Cardinality(CRLFs(text)) = 4 + 6 * Len(Records)
        /\ Len(text) - 1 \in CRLFs(text)

\* ------------------------------------------------------------------------
\* C10 as stated: the destination is opened for writing before any record
\* is validated (so that a malformed record can be met with it open).
\* ------------------------------------------------------------------------
C10_OpenedBeforeValidation ==
  (Len(pending) < Len(Records) /\ (pc = "loop" \/ err \in RecordErrors))
    => out_file.state # "untouched"

\* C10 amended: the destination is opened only after every record line has
\* been parsed and validated; no run meets a malformed record with the
\* destination open.
C10_OpenedAfterValidation ==
  out_file.state # "untouched" =>
    /\ pending = <<>>
    /\ err = ""
    /\ Len(lines) = 4 + 6 * Len(Records)
    /\ \A i \in 1..Len(Records) : line_to_event_tuple(Records[i]).err = ""

\* the destination is open and two records have been validated
C10_Witness ==
  /\ out_file.state = "open"
  /\ Len(Records) = 2

\* ------------------------------------------------------------------------
\* C4 as stated: a line without a comma fails with the malformed-record
\* error; any other line is split at its first comma, the title is what
\* precedes that comma, untrimmed, and goes into SUMMARY, and the date
\* fragment is everything after that comma.
\* ------------------------------------------------------------------------
C4_SplitAtFirstComma ==
  pc = "returned" =>
    IF Commas(arg) = {} THEN ret.err = "unpack"
    ELSE /\ ret.err # "unpack"
         /\ ret.day_title = BeforeFirstComma(arg)
         /\ ret.date_str = AfterFirstComma(arg)
         /\ ret.err = "" =>
              ret.event_lines[5] = <<"SUMMARY:">> \o BeforeFirstComma(arg)

\* C4 amended: a line with no comma or with more than one comma fails with
\* the malformed-record error; a line with exactly one comma is split at
\* it, the title is what precedes the comma, untrimmed, and goes into
\* SUMMARY, and the date fragment is everything after the comma.
C4_SplitAtOnlyComma ==
  pc = "returned" =>
    IF Cardinality(Commas(arg)) # 1 THEN ret.err = "unpack"
    ELSE /\ ret.err # "unpack"
         /\ ret.day_title = BeforeFirstComma(arg)
         /\ ret.date_str = AfterFirstComma(arg)
         /\ ret.err = "" =>
              ret.event_lines[5] = <<"SUMMARY:">> \o BeforeFirstComma(arg)

\* a title with leading and trailing whitespace has gone into SUMMARY
C4_Witness ==
  /\ pc = "returned"
  /\ ret.err = ""
  /\ Cardinality(Commas(arg)) = 1
  /\ BeforeFirstComma(arg) = <<SP, "a", SP>>
  /\ ret.event_lines[5] = <<"SUMMARY:", SP, "a", SP>>

\* ------------------------------------------------------------------------
\* C5 as stated: the first line is accepted exactly when it is "[", one or
\* more characters, "]", optional whitespace and a run of digits up to the
\* line end; the title is the text between the "[" and the last "]" of the
\* line; any other first line (a missing one too) fails with the
\* malformed-header error before any record is parsed.
\* ------------------------------------------------------------------------
Brackets(s) == {i \in 1..Len(s) : s[i] = "]"}

\* "[" + one or more characters + "]" + optional whitespace + digits
HasHeaderForm(s) ==
  /\ At(s, 1) = "["
  /\ Brackets(s) # {}
  /\ Max(Brackets(s)) >= 3
  /\ \E q \in (Max(Brackets(s)) + 1)..Len(s) :
       /\ \A i \in (Max(Brackets(s)) + 1)..(q - 1) : s[i] \in Whitespace
       /\ \A i \in q..Len(s) : s[i] \in Digits

\* the text between the opening bracket and the last "]"
BracketedText(s) == SubSeq(s, 2, Max(Brackets(s)) - 1)

\* a line without its line end
Body(line) ==
  IF At(line, Len(line)) = LF THEN SubSeq(line, 1, Len(line) - 1) ELSE line

FirstLine == IF source = <<>> THEN <<>> ELSE Head(source)

HeaderRead == pc \notin {"main", "read"}

HeaderRejected ==
  /\ Failed
  /\ err = "header"
  /\ pending = <<>>
  /\ lines = <<>>
  /\ out_file = Untouched

C5_WholeLineHeader ==
  HeaderRead =>
    IF HasHeaderForm(Body(FirstLine))
    THEN ~Failed /\ title = BracketedText(FirstLine)
    ELSE HeaderRejected

\* lengths of the prefixes of the first line that have the header form
HeaderPrefixes ==
  {n \in 1..Len(FirstLine) : HasHeaderForm(SubSeq(FirstLine, 1, n))}

\* C5 amended: the first line is accepted exactly when some prefix of it
\* is "[", one or more characters, "]", optional whitespace and a run of
\* digits (anything may follow the digits); the title is the text between
\* the "[" and the last "]" of the longest such prefix; any other first
\* line (a missing one too) fails with the malformed-header error before
\* any record is parsed.
C5_PrefixHeader ==
  HeaderRead =>
    IF HeaderPrefixes # {}
    THEN /\ ~Failed
         /\ title = BracketedText(SubSeq(FirstLine, 1, Max(HeaderPrefixes)))
         /\ pending = Records
    ELSE HeaderRejected

\* a first line with text after the count and a "]" in it was accepted,
\* with a record line waiting
C5_Witness ==
  /\ pc = "write"
  /\ ~HasHeaderForm(Body(FirstLine))
  /\ title # BracketedText(FirstLine)
  /\ Len(title) > 1
  /\ Len(pending) = 1

\* ------------------------------------------------------------------------
\* C6: the trimmed date fragment is accepted exactly when it is three
\* numeric fields year/month/day separated by "/" that form a real
\* calendar date; any other fragment fails with the invalid-date error;
\* the DTSTART;VALUE=DATE value of an accepted date is the 8-digit
\* YYYYMMDD rendering of that year, month and day.
\* ------------------------------------------------------------------------
IsNumber(field) ==
  field # <<>> /\ \A i \in 1..Len(field) : field[i] \in Digits

\* the date three numeric fields denote, NoDate if they denote none
FieldsDate(fragment) ==
  LET fields == Split(fragment, "/")
  IN  IF Len(fields) # 3 \/ \E i \in 1..3 : ~IsNumber(fields[i]) THEN NoDate
      ELSE LET y == IntOf(fields[1])
               m == IntOf(fields[2])
               d == IntOf(fields[3])
           IN  IF y >= 1 /\ m \in 1..12 /\ d >= 1 /\ d <= DaysInMonth(y, m)
               THEN <<y, m, d>> ELSE NoDate

YYYYMMDD(date) ==
  ZeroPad(date[1], 4) \o ZeroPad(date[2], 2) \o ZeroPad(date[3], 2)

\* C6, its last clause: the DTSTART;VALUE=DATE value of every accepted
\* date is the 8-digit YYYYMMDD rendering of its year, month and day.
C6_StartIsEightDigits ==
  (pc = "returned" /\ ret.err = "") =>
    /\ Len(ret.event_lines[4]) = 9
    /\ ret.event_lines[4] = <<"DTSTART;VALUE=DATE:">>
                            \o YYYYMMDD(ret.begin_datetime)

\* C6, its first clauses: a fragment is accepted exactly when it is three
\* numeric fields that form a real calendar date, and is refused with the
\* invalid-date error otherwise.
C6_AcceptsRealDates ==
  (pc = "returned" /\ ret.err # "unpack") =>
    /\ ret.err = "" <=> FieldsDate(Strip(ret.date_str)) # NoDate
    /\ ret.err = "" => ret.begin_datetime = FieldsDate(Strip(ret.date_str))
    /\ ret.err # "" => ret.err = "strptime"

\* ------------------------------------------------------------------------
\* C7: two conversions of the same source file both succeed or both fail
\* (the same way); their documents have the same number of lines and are
\* identical except for the values of the UID and DTSTAMP lines.
\* ------------------------------------------------------------------------
\* a document with the values of its UID and DTSTAMP lines left out
Masked(text) ==
  LET doc == DocLines(text)
  IN  [i \in 1..Len(doc) |->
         IF At(doc[i], 1) \in {"UID:", "DTSTAMP:"} THEN <<doc[i][1]>>
         ELSE doc[i]]

BothOver(variant) == first.variant = variant /\ pc \in {"done", "failed"}

SameOutcome == first.pc = pc /\ first.err = err

Events(text) ==
  LET doc == DocLines(text)
  IN  Cardinality({i \in 1..Len(doc) : doc[i] = <<"BEGIN:VEVENT">>})

C7_SameApartFromUidAndStamp ==
  BothOver("same") =>
    /\ first.source = source
    /\ SameOutcome
    /\ pc = "done" =>
         /\ Len(DocLines(first.content)) = Len(DocLines(out_file.content))
         /\ Masked(first.content) = Masked(out_file.content)

\* two documents of the same one-record file that are not the same text
C7_Witness ==
  /\ BothOver("same")
  /\ pc = "done"
  /\ Len(Records) = 1
  /\ first.content # out_file.content

\* ------------------------------------------------------------------------
\* C8: two source files that differ only in the digits of the header count
\* have the same outcome and, on success, the same title and the same
\* documents apart from UID and DTSTAMP; the number of VEVENT blocks is the
\* number of record lines, whatever the count says.
\* ------------------------------------------------------------------------
C8_CountIsAdvisory ==
  BothOver("count") =>
    /\ SameOutcome
    /\ pc = "done" =>
         /\ first.title = title
         /\ Masked(first.content) = Masked(out_file.content)
         /\ Events(first.content) = Len(Records)
         /\ Events(out_file.content) = Len(Records)

\* one record line was converted under a count of 1 and under a count
\* of 0
C8_Witness ==
  /\ BothOver("count")
  /\ pc = "done"
  /\ Len(Records) = 1
  /\ count = <<"0">>
  /\ HeaderMatch(first.source[1]).count = <<"1">>
  /\ Tail(first.source) = Records

====
